---- MODULE Spec2Model ----
(***************************************************************************)
(* The stochastic maximum-flow notebook (src/maxflow/maxflow.ipynb) as a   *)
(* state machine.  The notebook is a sequential program: every code cell   *)
(* is one step of the run, the two-phase solve cell is split at its        *)
(* statements.  Nondeterminism comes from the input configuration, from    *)
(* random.randint in the scenario generator, and from the external solver  *)
(* (which optimal point it returns, and whether it can be invoked at all). *)
(*                                                                         *)
(* Numbers: the model's decision variables are real in the notebook and    *)
(* range over bounded integers here.  Probabilities (alpha, beta, epsilon) *)
(* are given in percent, so that  a / S >= alpha  reads                    *)
(* 100 * a >= alphaPct * S.  Python lists are sequences; the notebook's    *)
(* 0-based index i is element i + 1 (operator At).                         *)
(***************************************************************************)
EXTENDS Integers, Sequences, FiniteSets, TLC

\* ------------------------------------------------------------------ bounds
\* Largest scenario count drawn for num_scenarios.
MaxScenarios == 2
\* Largest value tried for a first-stage decision x[edge].
XMax == 2
\* Largest value tried for a flow y[edge, scenario].
YMax == 2
\* cvar_beta ranges over -BetaBound .. BetaBound.
BetaBound == 1
\* Largest value tried for cvar_nu[scenario, i].
NuMax == 2
\* Largest scenario count of the CVaR reformulation check.
MaxCvarScenarios == 3

VARIABLES
    pc,                     \* the cell / statement the run is at
    cfg,                    \* the input configuration (cells 2, 3 and the parameter lines)
    xi,                     \* xi[scenario][edge], NoValue before the generator ran
    x,                      \* model.x[edge].value
    y,                      \* model.y[edge, scenario].value, as y[scenario][edge]
    indicator,              \* model.indicator[scenario, i].value
    cvar_beta,              \* model.cvar_beta[i].value
    cvar_nu,                \* model.cvar_nu[scenario, i].value
    x_fixed,                \* model.x[key].fixed (set for all keys by the loop)
    obj_min_budget_active,  \* model.obj_min_budget is declared and active
    obj_max_flow_active,    \* model.obj_max_flow is declared and active
    result,                 \* termination condition of the last solver.solve
    raised,                 \* the exception that ended the run, "" if none
    solves,                 \* number of solver.solve calls made so far
    phase1,                 \* what the first solve returned (history)
    calc                    \* scratch of the pure-function specifications

vars == <<pc, cfg, xi, x, y, indicator, cvar_beta, cvar_nu, x_fixed,
          obj_min_budget_active, obj_max_flow_active, result, raised, solves,
          phase1, calc>>

\* ------------------------------------------------------------- helpers
\* A pyomo variable without a value (None), and a table not built yet.
NoValue == << >>

\* list[i] for the notebook's 0-based index i.
At(list, i) == list[i + 1]

RECURSIVE SumTo(_, _)
\* sum(f[k] for k in range(n))
SumTo(f, n) == IF n <= 0 THEN 0 ELSE f[n - 1] + SumTo(f, n - 1)

RECURSIVE SumOver(_, _)
\* sum(f[e] for e in S)
SumOver(f, S) ==
    IF S = {} THEN 0
    ELSE LET e == CHOOSE e \in S : TRUE IN f[e] + SumOver(f, S \ {e})

SetMin(S) == CHOOSE m \in S : \A k \in S : m <= k
SetMax(S) == CHOOSE m \in S : \A k \in S : m >= k

\* S itself, as an explicitly enumerated set (a filtered set is otherwise
\* filtered again at every use).
Enumerated(S) == {e : e \in S}

RECURSIVE ProdUpTo(_, _)
\* The functions g on 0 .. n-1 with g[k] \in F[k].
ProdUpTo(F, n) ==
    IF n <= 0 THEN {<< >>}
    ELSE {g @@ ((n - 1) :> f) : g \in ProdUpTo(F, n - 1), f \in F[n - 1]}

\* ------------------------------------------------------- configuration
\* model.edges = list(edges), model.scenarios = range(num_scenarios),
\* model.type1_con_set, model.cvar_con_set, model.s, model.t.
Edges == DOMAIN cfg.edges
Scenarios == 0 .. (cfg.num_scenarios - 1)
num_type1_constraints == Len(cfg.perf_thresholds)
type1_con_set == 0 .. (num_type1_constraints - 1)
num_cvar_constraints == Len(cfg.cvar_thresholds)
cvar_con_set == 0 .. (num_cvar_constraints - 1)
\* The edge model.y[model.t, model.s, scenario] reads: sink -> source.
ReturnEdge == <<cfg.sink, cfg.source>>
\* The edge the generator's test (n, m) == (source, sink) selects.
ExemptEdge == <<cfg.source, cfg.sink>>

\* The example's shape on three nodes: two source->sink paths, one of them
\* the direct edge (source, sink), closed by the return edge (sink, source).
NetDirect ==
    [nodes |-> {0, 1, 2},
     edges |-> (<<0, 1>> :> 1) @@ (<<1, 2>> :> 1) @@ (<<0, 2>> :> 1) @@ (<<2, 0>> :> 2),
     source |-> 0, sink |-> 2]

\* Like the notebook's network: no edge (source, sink), only the return edge.
NetCycle ==
    [nodes |-> {0, 1, 2},
     edges |-> (<<0, 1>> :> 1) @@ (<<1, 2>> :> 1) @@ (<<2, 0>> :> 1),
     source |-> 0, sink |-> 2]

\* Node 1 is not declared: edge (0, 1) has an unknown head, (1, 2) an
\* unknown tail.
NetUnknownNode ==
    [nodes |-> {0, 2},
     edges |-> (<<0, 1>> :> 1) @@ (<<1, 2>> :> 1) @@ (<<2, 0>> :> 1),
     source |-> 0, sink |-> 2]

\* A negative capacity on an edge the generator samples.
NetNegative ==
    [nodes |-> {0, 1, 2},
     edges |-> (<<0, 1>> :> (0 - 1)) @@ (<<1, 2>> :> 1) @@ (<<2, 0>> :> 1),
     source |-> 0, sink |-> 2]

RiskBase ==
    [perf_thresholds |-> <<2, 1>>, alpha_thresholds |-> <<50, 100>>,
     perf_target |-> 2, beta_threshold |-> 50,
     cvar_thresholds |-> <<1>>, cvar_epsilons |-> <<50>>]

\* A requirement no reinforcement can meet: flow 3 through capacity 2.
RiskInfeasible ==
    [RiskBase EXCEPT !.perf_thresholds = <<3>>, !.alpha_thresholds = <<100>>]

\* Parameters for the networks whose largest flow is 1.
RiskUnit ==
    [perf_thresholds |-> <<1>>, alpha_thresholds |-> <<50>>,
     perf_target |-> 1, beta_threshold |-> 50,
     cvar_thresholds |-> <<1>>, cvar_epsilons |-> <<50>>]

\* The four ways the parallel parameter lists can differ in length.
RiskMismatched ==
    {[RiskUnit EXCEPT !.alpha_thresholds = <<50, 100>>],
     [RiskUnit EXCEPT !.alpha_thresholds = << >>],
     [RiskUnit EXCEPT !.cvar_epsilons = <<50, 100>>],
     [RiskUnit EXCEPT !.cvar_epsilons = << >>]}

Config(net, risk, S) ==
    [nodes |-> net.nodes, edges |-> net.edges, source |-> net.source,
     sink |-> net.sink, num_scenarios |-> S,
     perf_thresholds |-> risk.perf_thresholds,
     alpha_thresholds |-> risk.alpha_thresholds,
     perf_target |-> risk.perf_target,
     beta_threshold |-> risk.beta_threshold,
     cvar_thresholds |-> risk.cvar_thresholds,
     cvar_epsilons |-> risk.cvar_epsilons]

\* The inputs of a run: well-formed ones and each kind of malformed one,
\* with every scenario count from 0.
Configs ==
    {Config(NetDirect, r, S) : r \in {RiskBase, RiskInfeasible},
                               S \in 0 .. MaxScenarios}
    \cup {Config(NetCycle, r, S) : r \in {RiskUnit} \cup RiskMismatched,
                                   S \in 0 .. MaxScenarios}
    \cup {Config(n, RiskUnit, S) : n \in {NetUnknownNode, NetNegative},
                                   S \in 0 .. MaxScenarios}

\* --------------------------------------------------- scenario generator
\* random.randint(0, edges[n, m]) raises ValueError on an empty range; it
\* is called for every sampled (edge, scenario) pair.
RandintRaises ==
    /\ cfg.num_scenarios > 0
    /\ \E e \in Edges : e # ExemptEdge /\ cfg.edges[e] < 0

\* One scenario's row of the xi comprehension: the full capacity
\* edges[source, sink] for the edge equal to (source, sink), a draw of
\* random.randint(0, edges[n, m]) for every other edge.
XiRows ==
    LET caps == {cfg.edges[e] : e \in Edges} \cup {0}
    IN {r \in [Edges -> SetMin(caps) .. SetMax(caps)] :
          \A e \in Edges :
             IF e = ExemptEdge THEN r[e] = cfg.edges[ExemptEdge]
             ELSE r[e] \in 0 .. cfg.edges[e]}

\* ---------------------------------------------------------- constraints
\* Each rule is a predicate on candidate values; yw is y[., scenario].
in_edges(node) == {e \in Edges : e[2] = node}
out_edges(node) == {e \in Edges : e[1] = node}

\* Conservation at the inner nodes only, as in a formulation with external
\* supply at the source and demand at the sink.
con_flow_balance_inner(yw, node) ==
    \/ node \in {cfg.source, cfg.sink}
    \/ SumOver(yw, in_edges(node)) = SumOver(yw, out_edges(node))

con_flow_balance(yw, node) ==
    SumOver(yw, in_edges(node)) = SumOver(yw, out_edges(node))

con_max_flow_capacity(yw, e) == yw[e] <= cfg.edges[e]

\* The deterministic capacity in place of the scenario's xi.
con_eff_flow_capacity_det(yw, xv, e, w) == yw[e] <= cfg.edges[e] + xv[e]

con_eff_flow_capacity(yw, xv, e, w) == yw[e] <= xi[w][e] + xv[e]

obj_min_budget(xv) == SumOver(xv, Edges)

\* y[t, s, .]: the measured flow of every scenario.
ReturnFlows(yv) == [w \in Scenarios |-> yv[w][ReturnEdge]]

\* The bound without the division by the threshold.
con_indicator_unscaled(ind, yts, w, i) == ind[w][i] <= yts[w]

\* indicator <= y[t, s, scenario] / perf_thresholds[i]; the threshold is
\* nonzero once the cell has run (a zero one raises ZeroDivisionError).
con_indicator(ind, yts, w, i) ==
    LET b == At(cfg.perf_thresholds, i)
    IN IF b > 0 THEN ind[w][i] * b <= yts[w]
       ELSE ind[w][i] * b >= yts[w]

\* The service level read as a risk level: 1 - alpha in place of alpha.
con_type1_service_level_risk(ind, i) ==
    100 * SumTo([w \in Scenarios |-> ind[w][i]], cfg.num_scenarios)
        >= (100 - At(cfg.alpha_thresholds, i)) * cfg.num_scenarios

\* sum(indicator[., i]) / num_scenarios >= alpha_thresholds[i], in percent.
con_type1_service_level(ind, i) ==
    100 * SumTo([w \in Scenarios |-> ind[w][i]], cfg.num_scenarios)
        >= At(cfg.alpha_thresholds, i) * cfg.num_scenarios

\* sum(y[t, s, .]) / num_scenarios >= perf_target * beta_threshold.
con_type2_service_level(yts) ==
    100 * SumTo(yts, cfg.num_scenarios)
        >= cfg.perf_target * cfg.beta_threshold * cfg.num_scenarios

\* The left-hand side with the sum divided by num_scenarios alone.
cvar_lhs_no_epsilon(S, eps, beta, nusum) == beta * S * eps + eps * nusum

\* The left-hand side of con_cvar_main times num_scenarios * epsilon (in
\* percent): beta + sum(nu) / (num_scenarios * epsilon).
cvar_lhs(S, eps, beta, nusum) == beta * S * eps + 100 * nusum

con_cvar_main(betav, nuv, i) ==
    cvar_lhs(cfg.num_scenarios, At(cfg.cvar_epsilons, i), betav[i],
             SumTo([w \in Scenarios |-> nuv[w][i]], cfg.num_scenarios))
        <= At(cfg.cvar_thresholds, i) * cfg.num_scenarios * At(cfg.cvar_epsilons, i)

con_cvar_aux(betav, nuv, yts, w, i) ==
    LET loss == cfg.perf_target - yts[w]
    IN nuv[w][i] >= loss - betav[i]

\* num_scenarios times the objective sum(y[t, s, .]) / num_scenarios.
obj_max_flow(yts) == SumTo(yts, cfg.num_scenarios)

\* --------------------------------------------------------------- solver
\* The points of the model: every variable in its declared domain
\* (NonNegativeReals, Binary, free), every constraint satisfied.  The
\* risk constraints read y only through y[t, s, .], so their variables
\* are enumerated once per vector of measured flows.
Circulations ==
    Enumerated({f \in [Edges -> 0 .. YMax] :
        /\ \A n \in cfg.nodes : con_flow_balance(f, n)
        /\ \A e \in Edges : con_max_flow_capacity(f, e)})

ScenarioFlows(circ, xv, w) ==
    Enumerated({f \in circ : \A e \in Edges : con_eff_flow_capacity(f, xv, e, w)})

FlowPoints(circ, xv) ==
    ProdUpTo([w \in Scenarios |-> ScenarioFlows(circ, xv, w)], cfg.num_scenarios)

IndicatorPoints(yts) ==
    Enumerated({ind \in [Scenarios -> [type1_con_set -> {0, 1}]] :
        /\ \A w \in Scenarios, i \in type1_con_set : con_indicator(ind, yts, w, i)
        /\ \A i \in type1_con_set : con_type1_service_level(ind, i)})

CvarPoints(yts) ==
    Enumerated({c \in [beta : [cvar_con_set -> (0 - BetaBound) .. BetaBound],
                        nu : [Scenarios -> [cvar_con_set -> 0 .. NuMax]]] :
        /\ \A i \in cvar_con_set : con_cvar_main(c.beta, c.nu, i)
        /\ \A w \in Scenarios, i \in cvar_con_set :
              con_cvar_aux(c.beta, c.nu, yts, w, i)})

\* For every vector of measured flows a circulation can give that meets
\* the Type-II constraint, the values the Type-I and CVaR variables can
\* take with it.
RiskPoints(circ) ==
    {[yts |-> r, inds |-> IndicatorPoints(r), cvs |-> CvarPoints(r)] :
        r \in {q \in [Scenarios -> {f[ReturnEdge] : f \in circ}] :
                  con_type2_service_level(q)}}

PointsAt(risk, xv, yv) ==
    LET yts == ReturnFlows(yv)
    IN UNION {{[x |-> xv, y |-> yv, indicator |-> ind, cvar_beta |-> c.beta,
                cvar_nu |-> c.nu] : ind \in t.inds, c \in t.cvs}
              : t \in {u \in risk : u.yts = yts}}

PointsFor(circ, risk, xv) ==
    UNION {PointsAt(risk, xv, yv) : yv \in FlowPoints(circ, xv)}

\* A fixed variable is a constant of the model, a free one a decision.
XCandidates == IF x_fixed THEN {x} ELSE [Edges -> 0 .. XMax]

Feasible ==
    LET circ == Circulations
        risk == RiskPoints(circ)
    IN Enumerated(UNION {PointsFor(circ, risk, xv) : xv \in XCandidates})

\* The points the solver may return for the active objective.
Optimal(points) ==
    IF obj_min_budget_active
    THEN LET best == SetMin({obj_min_budget(p.x) : p \in points})
         IN {p \in points : obj_min_budget(p.x) = best}
    ELSE LET best == SetMax({obj_max_flow(ReturnFlows(p.y)) : p \in points})
         IN {p \in points : obj_max_flow(ReturnFlows(p.y)) = best}

\* The model cannot be written for the solver: a fixed variable without a
\* value, or not exactly one active objective.
ModelUnwritable ==
    \/ x_fixed /\ x = NoValue
    \/ obj_min_budget_active = obj_max_flow_active

\* solver.solve(model): the call raises (solver unavailable, unwritable
\* model), or reports infeasible and loads nothing, or loads an optimal
\* point into the model's variables.
SolverSolve(next) ==
    /\ solves' = solves + 1
    /\ \/ /\ raised' = "SolverError"
          /\ pc' = "raised"
          /\ UNCHANGED <<x, y, indicator, cvar_beta, cvar_nu, result>>
       \/ /\ ~ModelUnwritable
          /\ LET points == Feasible
             IN IF points = {}
                THEN /\ result' = "infeasible"
                     /\ UNCHANGED <<x, y, indicator, cvar_beta, cvar_nu>>
                ELSE /\ result' = "optimal"
                     /\ \E p \in Optimal(points) :
                           /\ x' = p.x
                           /\ y' = p.y
                           /\ indicator' = p.indicator
                           /\ cvar_beta' = p.cvar_beta
                           /\ cvar_nu' = p.cvar_nu
          /\ pc' = next
          /\ UNCHANGED raised

\* ---------------------------------------------------------------- cells
NoPhase1 == [status |-> "none", x |-> NoValue, y |-> NoValue]

Init ==
    /\ pc = "generate_xi"
    /\ cfg \in Configs
    /\ xi = NoValue
    /\ x = NoValue
    /\ y = NoValue
    /\ indicator = NoValue
    /\ cvar_beta = NoValue
    /\ cvar_nu = NoValue
    /\ x_fixed = FALSE
    /\ obj_min_budget_active = FALSE
    /\ obj_max_flow_active = FALSE
    /\ result = "none"
    /\ raised = ""
    /\ solves = 0
    /\ phase1 = NoPhase1
    /\ calc = NoValue

Raise(exc) ==
    /\ raised' = exc
    /\ pc' = "raised"

\* Cell 3: the xi comprehension.
GenerateXi ==
    /\ pc = "generate_xi"
    /\ IF RandintRaises
       THEN Raise("ValueError") /\ UNCHANGED xi
       ELSE /\ xi' \in [Scenarios -> XiRows]
            /\ pc' = "core_model"
            /\ UNCHANGED raised
    /\ UNCHANGED <<cfg, x, y, indicator, cvar_beta, cvar_nu, x_fixed,
                   obj_min_budget_active, obj_max_flow_active, result, solves,
                   phase1, calc>>

\* Cell "Core Model": sets, parameters, x, y, the flow constraints and
\* the budget objective.  Nothing in it looks at the nodes an edge names
\* or at the sign of a capacity.
CoreModel ==
    /\ pc = "core_model"
    /\ obj_min_budget_active' = TRUE
    /\ pc' = "type1"
    /\ UNCHANGED <<cfg, xi, x, y, indicator, cvar_beta, cvar_nu, x_fixed,
                   obj_max_flow_active, result, raised, solves, phase1, calc>>

\* Building con_indicator divides by perf_thresholds[i]; building
\* con_type1_service_level divides by num_scenarios, then reads
\* alpha_thresholds[i] for i in range(len(perf_thresholds)).
Type1Raises ==
    IF num_type1_constraints = 0 THEN ""
    ELSE IF cfg.num_scenarios > 0
            /\ \E i \in type1_con_set : At(cfg.perf_thresholds, i) = 0
         THEN "ZeroDivisionError"
    ELSE IF cfg.num_scenarios = 0 THEN "ZeroDivisionError"
    ELSE IF Len(cfg.alpha_thresholds) < num_type1_constraints THEN "IndexError"
    ELSE ""

Type1Cell ==
    /\ pc = "type1"
    /\ IF Type1Raises # "" THEN Raise(Type1Raises)
       ELSE pc' = "type2" /\ UNCHANGED raised
    /\ UNCHANGED <<cfg, xi, x, y, indicator, cvar_beta, cvar_nu, x_fixed,
                   obj_min_budget_active, obj_max_flow_active, result, solves,
                   phase1, calc>>

\* con_type2_service_level divides by num_scenarios.
Type2Raises == IF cfg.num_scenarios = 0 THEN "ZeroDivisionError" ELSE ""

Type2Cell ==
    /\ pc = "type2"
    /\ IF Type2Raises # "" THEN Raise(Type2Raises)
       ELSE pc' = "cvar" /\ UNCHANGED raised
    /\ UNCHANGED <<cfg, xi, x, y, indicator, cvar_beta, cvar_nu, x_fixed,
                   obj_min_budget_active, obj_max_flow_active, result, solves,
                   phase1, calc>>

\* con_cvar_main reads cvar_epsilons[i] for i in
\* range(len(cvar_thresholds)) and divides by num_scenarios * epsilon.
CvarRaises ==
    IF num_cvar_constraints = 0 THEN ""
    ELSE IF Len(cfg.cvar_epsilons) < num_cvar_constraints THEN "IndexError"
    ELSE IF \E i \in cvar_con_set : cfg.num_scenarios * At(cfg.cvar_epsilons, i) = 0
         THEN "ZeroDivisionError"
    ELSE ""

CvarCell ==
    /\ pc = "cvar"
    /\ IF CvarRaises # "" THEN Raise(CvarRaises)
       ELSE pc' = "solve1" /\ UNCHANGED raised
    /\ UNCHANGED <<cfg, xi, x, y, indicator, cvar_beta, cvar_nu, x_fixed,
                   obj_min_budget_active, obj_max_flow_active, result, solves,
                   phase1, calc>>

\* result = solver.solve(model), the first call.
SolvePhase1 ==
    /\ pc = "solve1"
    /\ SolverSolve("fix_x")
    /\ phase1' = [status |-> IF pc' = "raised" THEN "raised" ELSE result',
                  x |-> x', y |-> y']
    /\ UNCHANGED <<cfg, xi, x_fixed, obj_min_budget_active, obj_max_flow_active,
                   calc>>

\* The loop fixing every x at 0 instead of at its value.
FixX_at_zero ==
    /\ pc = "fix_x"
    /\ x_fixed' = TRUE
    /\ x' = [e \in DOMAIN x |-> 0]
    /\ pc' = "deactivate"
    /\ UNCHANGED <<cfg, xi, y, indicator, cvar_beta, cvar_nu,
                   obj_min_budget_active, obj_max_flow_active, result, raised,
                   solves, phase1, calc>>

\* The loop left out: x stays a decision variable.
FixX_skipped ==
    /\ pc = "fix_x"
    /\ pc' = "deactivate"
    /\ UNCHANGED <<cfg, xi, x, y, indicator, cvar_beta, cvar_nu, x_fixed,
                   obj_min_budget_active, obj_max_flow_active, result, raised,
                   solves, phase1, calc>>

\* for key in model.x: model.x[key].fix(model.x[key].value)
FixX ==
    /\ pc = "fix_x"
    /\ x_fixed' = TRUE
    /\ pc' = "deactivate"
    /\ UNCHANGED <<cfg, xi, x, y, indicator, cvar_beta, cvar_nu,
                   obj_min_budget_active, obj_max_flow_active, result, raised,
                   solves, phase1, calc>>

\* model.obj_min_budget.deactivate()
DeactivateBudget ==
    /\ pc = "deactivate"
    /\ obj_min_budget_active' = FALSE
    /\ pc' = "declare_max_flow"
    /\ UNCHANGED <<cfg, xi, x, y, indicator, cvar_beta, cvar_nu, x_fixed,
                   obj_max_flow_active, result, raised, solves, phase1, calc>>

\* model.obj_max_flow = penv.Objective(sense=penv.maximize, rule=obj_max_flow)
DeclareMaxFlow ==
    /\ pc = "declare_max_flow"
    /\ obj_max_flow_active' = TRUE
    /\ pc' = "solve2"
    /\ UNCHANGED <<cfg, xi, x, y, indicator, cvar_beta, cvar_nu, x_fixed,
                   obj_min_budget_active, result, raised, solves, phase1, calc>>

\* result = solver.solve(model), the second call.
SolvePhase2 ==
    /\ pc = "solve2"
    /\ SolverSolve("done")
    /\ UNCHANGED <<cfg, xi, x_fixed, obj_min_budget_active, obj_max_flow_active,
                   phase1, calc>>

Next ==
    \/ GenerateXi
    \/ CoreModel
    \/ Type1Cell
    \/ Type2Cell
    \/ CvarCell
    \/ SolvePhase1
    \/ FixX
    \/ DeactivateBudget
    \/ DeclareMaxFlow
    \/ SolvePhase2

Spec == Init /\ [][Next]_vars

\* ------------------------------------------- the CVaR reformulation alone
\* The CVaR constraints for a given vector of measured flows: the run
\* evaluates con_cvar_aux, the domain of cvar_nu and the left-hand side of
\* con_cvar_main over every (beta, nu), one CVaR pair at a time.
ZetaLevels == {0 - 1, 0, 1}
EpsilonLevels == {25, 40, 50, 75, 100}

CvarConfigs ==
    {Config(NetCycle,
            [RiskUnit EXCEPT !.cvar_thresholds = <<z>>, !.cvar_epsilons = <<p>>], S) :
        z \in ZetaLevels, p \in EpsilonLevels, S \in 1 .. MaxCvarScenarios}

\* The (beta, nu) with nu >= 0 and con_cvar_aux satisfied in every scenario.
CvarAuxPoints(yts) ==
    Enumerated({c \in [beta : [cvar_con_set -> (0 - BetaBound) .. BetaBound],
                        nu : [Scenarios -> [cvar_con_set -> 0 .. NuMax]]] :
        \A w \in Scenarios, i \in cvar_con_set :
            con_cvar_aux(c.beta, c.nu, yts, w, i)})

\* The left-hand side of con_cvar_main at a point (scaled as cvar_lhs is).
CvarLhsAt(c, i) ==
    cvar_lhs(cfg.num_scenarios, At(cfg.cvar_epsilons, i), c.beta[i],
             SumTo([w \in Scenarios |-> c.nu[w][i]], cfg.num_scenarios))

InitCvar ==
    /\ pc = "cvar_check"
    /\ cfg \in CvarConfigs
    /\ calc \in {[yts |-> r, evaluated |-> FALSE] : r \in [Scenarios -> 0 .. YMax]}
    /\ xi = NoValue
    /\ x = NoValue
    /\ y = NoValue
    /\ indicator = NoValue
    /\ cvar_beta = NoValue
    /\ cvar_nu = NoValue
    /\ x_fixed = FALSE
    /\ obj_min_budget_active = FALSE
    /\ obj_max_flow_active = FALSE
    /\ result = "none"
    /\ raised = ""
    /\ solves = 0
    /\ phase1 = NoPhase1

CvarEvaluate ==
    /\ pc = "cvar_check"
    /\ ~calc.evaluated
    /\ LET pts == CvarAuxPoints(calc.yts)
           at(i) ==
               LET vals == {[beta |-> c.beta[i], lhs |-> CvarLhsAt(c, i)] : c \in pts}
                   least == SetMin({v.lhs : v \in vals})
               IN [min |-> least,
                   arg |-> {v.beta : v \in {u \in vals : u.lhs = least}}]
       IN calc' = [yts |-> calc.yts,
                   evaluated |-> TRUE,
                   min_lhs |-> [i \in cvar_con_set |-> at(i).min],
                   argmin_beta |-> [i \in cvar_con_set |-> at(i).arg],
                   satisfiable |-> CvarPoints(calc.yts) # {}]
    /\ UNCHANGED <<pc, cfg, xi, x, y, indicator, cvar_beta, cvar_nu, x_fixed,
                   obj_min_budget_active, obj_max_flow_active, result, raised,
                   solves, phase1>>

NextCvar == CvarEvaluate

SpecCvar == InitCvar /\ [][NextCvar]_vars

\* --------------------------------------- the phase-1 optimum as alpha rises
\* The budget-minimization model of one network and xi table, solved
\* again after one Type-I probability requirement has been raised.
AlphaLevels == {0, 50, 100}

MonoConfigs ==
    {Config(NetCycle, [RiskUnit EXCEPT !.alpha_thresholds = <<0>>,
                                       !.beta_threshold = b], S) :
        b \in {0, 50}, S \in 1 .. MaxScenarios}
    \cup {Config(NetDirect, [RiskBase EXCEPT !.perf_thresholds = <<b, 1>>,
                                             !.alpha_thresholds = <<0, 0>>], 1) :
        b \in {2, 3}}

NoBudget == [known |-> FALSE, feasible |-> FALSE, budget |-> 0]

\* x admits a point of the model: flows and risk variables exist with it.
Solvable(circ, risk, xv) ==
    \E yv \in FlowPoints(circ, xv) :
        \E t \in risk : t.yts = ReturnFlows(yv) /\ t.inds # {} /\ t.cvs # {}

\* What the budget-minimization solve reports: infeasible, or the least
\* sum of x over the points of the model.
Phase1Budget ==
    LET circ == Circulations
        risk == RiskPoints(circ)
        xs == {xv \in XCandidates : Solvable(circ, risk, xv)}
    IN IF xs = {} THEN [known |-> TRUE, feasible |-> FALSE, budget |-> 0]
       ELSE [known |-> TRUE, feasible |-> TRUE,
             budget |-> SetMin({obj_min_budget(xv) : xv \in xs})]

InitMono ==
    /\ pc = "mono_check"
    /\ cfg \in MonoConfigs
    /\ xi \in [Scenarios -> XiRows]
    /\ calc = [solved |-> FALSE, prev |-> NoBudget, cur |-> NoBudget]
    /\ x = NoValue
    /\ y = NoValue
    /\ indicator = NoValue
    /\ cvar_beta = NoValue
    /\ cvar_nu = NoValue
    /\ x_fixed = FALSE
    /\ obj_min_budget_active = TRUE
    /\ obj_max_flow_active = FALSE
    /\ result = "none"
    /\ raised = ""
    /\ solves = 0
    /\ phase1 = NoPhase1

MonoSolve ==
    /\ pc = "mono_check"
    /\ ~calc.solved
    /\ calc' = [solved |-> TRUE, prev |-> calc.cur, cur |-> Phase1Budget]
    /\ UNCHANGED <<pc, cfg, xi, x, y, indicator, cvar_beta, cvar_nu, x_fixed,
                   obj_min_budget_active, obj_max_flow_active, result, raised,
                   solves, phase1>>

\* alpha_thresholds[i] is replaced by a larger value, all else unchanged.
MonoRaiseAlpha ==
    /\ pc = "mono_check"
    /\ calc.solved
    /\ \E i \in type1_con_set, a \in AlphaLevels :
          /\ a > At(cfg.alpha_thresholds, i)
          /\ cfg' = [cfg EXCEPT !.alpha_thresholds[i + 1] = a]
    /\ calc' = [calc EXCEPT !.solved = FALSE]
    /\ UNCHANGED <<pc, xi, x, y, indicator, cvar_beta, cvar_nu, x_fixed,
                   obj_min_budget_active, obj_max_flow_active, result, raised,
                   solves, phase1>>

NextMono == MonoSolve \/ MonoRaiseAlpha

SpecMono == InitMono /\ [][NextMono]_vars

\* ================================================================ claims
\* A solver call has loaded a solution into the model (the accepted
\* solution of the last phase that ended optimal).
Accepted == result = "optimal"
\* The second solve returned (the run ended without an exception).
Phase2Returned == pc = "done"

\* C1: in the generated xi table the return edge (sink, source), the edge
\* whose flow the risk constraints and the phase-2 objective measure,
\* keeps its full deterministic capacity in every scenario.
C1_ReturnEdgeNeverReduced ==
    xi # NoValue =>
        \A w \in Scenarios : xi[w][ReturnEdge] = cfg.edges[ReturnEdge]

\* C2: when the first solve does not end optimal, the run stops there: no
\* x is fixed, the budget objective stays active, no second solver call.
C2_Phase1FailureStops ==
    phase1.status \in {"infeasible", "raised"} =>
        /\ ~x_fixed
        /\ obj_min_budget_active
        /\ solves <= 1

\* An edge names an undeclared node, a capacity is negative, there is no
\* scenario, or parallel parameter lists differ in length.
Malformed ==
    \/ \E e \in Edges : e[1] \notin cfg.nodes \/ e[2] \notin cfg.nodes
    \/ \E e \in Edges : cfg.edges[e] < 0
    \/ cfg.num_scenarios = 0
    \/ Len(cfg.perf_thresholds) # Len(cfg.alpha_thresholds)
    \/ Len(cfg.cvar_thresholds) # Len(cfg.cvar_epsilons)

\* C3: a malformed input is rejected with an error while the model is
\* assembled, so that the solver is never called on it.
C3_MalformedNeverSolved == Malformed => solves = 0

\* The scenarios whose measured flow reaches threshold i.
Reaching(i) == {w \in Scenarios : y[w][ReturnEdge] >= At(cfg.perf_thresholds, i)}

\* C4: in every accepted solution, for each Type-I threshold i (b_i > 0),
\* at least alpha_i * S scenarios have y >= b_i, all of them when
\* alpha_i = 1.0; the indicators are binary, bounded by y / b_i, and their
\* mean is at least alpha_i.
C4_Type1Probability ==
    Accepted =>
        \A i \in type1_con_set :
            /\ At(cfg.perf_thresholds, i) > 0
            /\ 100 * Cardinality(Reaching(i))
                   >= At(cfg.alpha_thresholds, i) * cfg.num_scenarios
            /\ At(cfg.alpha_thresholds, i) = 100 => Reaching(i) = Scenarios
            /\ \A w \in Scenarios :
                  /\ indicator[w][i] \in {0, 1}
                  /\ indicator[w][i] * At(cfg.perf_thresholds, i) <= y[w][ReturnEdge]
            /\ 100 * Cardinality({w \in Scenarios : indicator[w][i] = 1})
                   >= At(cfg.alpha_thresholds, i) * cfg.num_scenarios

\* C4's case: an accepted phase-2 solution in which one threshold is
\* required with probability 1.0 and another is missed by some scenario.
C4_Witness ==
    /\ Accepted /\ Phase2Returned
    /\ \E i \in type1_con_set : At(cfg.alpha_thresholds, i) = 100
    /\ \E i \in type1_con_set : Reaching(i) \notin {{}, Scenarios}

\* The values the model's variables hold, as one point.
CurrentPoint ==
    [x |-> x, y |-> y, indicator |-> indicator, cvar_beta |-> cvar_beta,
     cvar_nu |-> cvar_nu]

\* C6: once phase 1 ended optimal, the phase-1 values are a point of the
\* phase-2 model (x fixed, same constraints); so the second solve, when
\* it returns, is optimal, never infeasible, and its mean measured flow is
\* at least that of the phase-1 solution.
C6_Phase2InheritsFeasiblePoint ==
    phase1.status = "optimal" =>
        /\ pc = "solve2" => CurrentPoint \in Feasible
        /\ Phase2Returned =>
              /\ result = "optimal"
              /\ obj_max_flow(ReturnFlows(y)) >= obj_max_flow(ReturnFlows(phase1.y))

\* C6's case: phase 2 returned after an optimal phase 1 with a positive
\* budget and strictly more flow than the phase-1 solution carried.
C6_Witness ==
    /\ Phase2Returned /\ phase1.status = "optimal"
    /\ obj_min_budget(x) > 0
    /\ obj_max_flow(ReturnFlows(y)) > obj_max_flow(ReturnFlows(phase1.y))

\* The smaller of two numbers.
Least(a, b) == IF a <= b THEN a ELSE b

\* C7: in every accepted solution, 0 <= y(e, w) <= min(capacity(e),
\* xi(e, w) + x(e)) for every edge and scenario; in phase 2, x is the
\* value frozen after phase 1.
C7_CapacityFeasible ==
    Accepted =>
        \A w \in Scenarios, e \in Edges :
            /\ 0 <= y[w][e]
            /\ y[w][e] <= Least(cfg.edges[e], xi[w][e] + x[e])
            /\ Phase2Returned => y[w][e] <= Least(cfg.edges[e], xi[w][e] + phase1.x[e])

\* C7's case: an accepted phase-2 solution where a reinforced edge carries
\* exactly xi + x, below its deterministic capacity, and another edge is
\* filled to its deterministic capacity.
C7_Witness ==
    /\ Accepted /\ Phase2Returned
    /\ \E w \in Scenarios, e \in Edges :
          x[e] > 0 /\ y[w][e] = xi[w][e] + x[e] /\ y[w][e] < cfg.edges[e]
    /\ \E w \in Scenarios, e \in Edges :
          y[w][e] = cfg.edges[e] /\ y[w][e] < xi[w][e] + x[e]

\* C8: in every accepted solution, at every node of the node set (source
\* and sink included) and in every scenario, the flow entering the node
\* equals the flow leaving it.
C8_FlowConservation ==
    Accepted =>
        \A w \in Scenarios, n \in cfg.nodes :
            SumOver(y[w], {e \in Edges : e[2] = n})
                = SumOver(y[w], {e \in Edges : e[1] = n})

\* C8's case: an accepted solution that sends flow through the source and
\* the sink in some scenario, over two different paths.
C8_Witness ==
    /\ Accepted
    /\ \E w \in Scenarios :
          /\ y[w][ReturnEdge] > 1
          /\ Cardinality({e \in Edges : e[1] = cfg.source /\ y[w][e] > 0}) > 1

\* C10: phase 2 leaves the first-stage decision unchanged: after the
\* second solve x equals what phase 1 returned, edge by edge, so the
\* budget is the phase-1 optimum; and the second solve runs with the
\* budget objective deactivated and the flow objective the only active one.
C10_Phase2KeepsX ==
    /\ solves = 2 => x = phase1.x
    /\ (pc = "solve2" \/ solves = 2) =>
          /\ x_fixed
          /\ ~obj_min_budget_active
          /\ obj_max_flow_active
    /\ (Phase2Returned /\ phase1.status = "optimal") =>
          /\ \A e \in Edges : x[e] = phase1.x[e]
          /\ obj_min_budget(x) = obj_min_budget(phase1.x)

\* C10's case: phase 2 returned optimal with a positive budget and changed
\* the flows of the phase-1 solution.
C10_Witness ==
    /\ Phase2Returned /\ Accepted /\ phase1.status = "optimal"
    /\ obj_min_budget(x) > 0
    /\ y # phase1.y

\* The losses perf_target - y(w) of the checked vector of measured flows.
Loss(w) == cfg.perf_target - calc.yts[w]

\* The sum of the k largest losses.
TopLossSum(k) ==
    SetMax({SumOver([w \in Scenarios |-> Loss(w)], T) :
                T \in {U \in SUBSET Scenarios : Cardinality(U) = k}})

\* num_scenarios * epsilon_i (percent) times the mean of the worst
\* epsilon_i fraction of the losses: the floor(epsilon_i * S) largest
\* losses whole, the next one with the remaining weight.
TailMeanScaled(i) ==
    LET mass == cfg.num_scenarios * At(cfg.cvar_epsilons, i)
        whole == mass \div 100
    IN IF whole >= cfg.num_scenarios THEN 100 * TopLossSum(cfg.num_scenarios)
       ELSE 100 * TopLossSum(whole)
            + (mass - 100 * whole) * (TopLossSum(whole + 1) - TopLossSum(whole))

\* The empirical Value-at-Risk: the least loss value l such that at least
\* a (1 - epsilon_i) fraction of the scenarios lose at most l.
ValueAtRisk(i) ==
    SetMin({l \in {Loss(w) : w \in Scenarios} :
               100 * Cardinality({w \in Scenarios : Loss(w) <= l})
                   >= (100 - At(cfg.cvar_epsilons, i)) * cfg.num_scenarios})

C9_AlphaMonotone ==
    (pc = "mono_check" /\ calc.solved /\ calc.prev.known) =>
        /\ ~calc.prev.feasible => ~calc.cur.feasible
        /\ (calc.prev.feasible /\ calc.cur.feasible) =>
              calc.prev.budget <= calc.cur.budget

\* C9's case: the raise strictly increased the optimal budget.
C9_Witness ==
    /\ pc = "mono_check" /\ calc.solved /\ calc.prev.known
    /\ calc.prev.feasible /\ calc.cur.feasible
    /\ calc.prev.budget < calc.cur.budget

====
